---- MODULE Spec2Model ----
(***************************************************************************)
(* The download pipeline of goopho: the selector's bounded request queue,  *)
(* the two schedulers of download.rs (photos_to_disk, one spawned task per *)
(* request joined at the end; photos_to_disk_unordered, a buffer_unordered  *)
(* pool), the per-item state machine download_and_write, and the event     *)
(* accumulator track_events of acc.rs.                                     *)
(***************************************************************************)
EXTENDS Integers, Sequences, FiniteSets, TLC

(* ------------------------------------------------------------------ *)
(* Program constants                                                   *)
(* ------------------------------------------------------------------ *)
TIMEOUT_MS == 3000
QUEUE_DEPTH == 10
STALL_GIVE_UP == 60
STALL_WARN == 20
HTTP_OK == 200
HTTP_FOUND == 302
U8 == 256

(* ------------------------------------------------------------------ *)
(* Bounds of the model                                                 *)
(* ------------------------------------------------------------------ *)
\* requests in the catalog (system runs)
NumReq == 2
\* requests in the catalog of a run that has more of them than the pool takes
PoolReq == 3
\* stand-in for the 100 of buffer_unordered(100): in-flight futures of the pool
PoolCap == 2
\* connect timeouts the transport inflicts on one item
MaxTimeouts == 1
\* 302 answers with a Location the transport gives one item of a system run
\* (redirect chains are explored on the single item of SpecFetch)
MaxHops == 0
\* body chunks the transport delivers to one item
MaxChunks == 1
\* chunk timeouts the transport inflicts on one item in a system run
MaxStalls == 1
\* requests of a dry run
DryReq == 11
\* connect timeouts and redirects of the single item whose connect phase is explored
FetchTimeouts == 3
FetchHops == 2
\* chunks and chunk timeouts of the single item whose body transfer is explored
StreamChunks == 2
StreamStalls == 61
\* requests in the catalog of a run whose listings are explored, and the
\* batch_size of that run: the number of media items on a page
PageReq == 3
BatchSize == 1
\* connect timeouts of the single item whose backoff is explored up to the
\* width of pause_ms
BackoffTimeouts == 53

VARIABLES
    env,            \* the input sets of this run (request count, transport budgets)
    unordered,      \* Cmdlargs.unordered: photos_to_disk_unordered instead of photos_to_disk
    is_dry_run,     \* Cmdlargs.dry_run
    next_page_token, \* select_media_and_send: the page token held (0 for None)
    selection,      \* the selection of the page listed last, as far as not yet sent
    selector,       \* position of the selector task
    listings,       \* the listings requested so far (their number modulo 2)
    enqueued,       \* requests the selector has sent so far
    closed,         \* the selector has dropped transmit_to_write
    write_request,  \* the request queue: item ids in flight
    sched,          \* position of the scheduler task
    run,            \* what the scheduler's JoinHandle resolves to
    media_items,    \* photos_to_disk_unordered: requests drained into memory, not yet started
    handles,        \* photos_to_disk: the JoinHandles of the spawned write threads
    task,           \* per item: position and locals of its fetch
    files,          \* the files that exist in the download directory
    content,        \* per existing file: the chunks it holds, in order
    log,            \* per item: the events its fetch has sent, in order
    track_and_log,  \* the event channel: events sent and not yet received
    mem,            \* the sink's Tracker
    sink,           \* position of the sink task
    reports,        \* "Processed: ..." lines the sink has logged
    summarize_sent, \* the caller has sent Event::Summarize
    caller_sender   \* the caller still holds its Sender<Event>

vars == <<env, unordered, is_dry_run, next_page_token, selection, selector, listings,
          enqueued, closed, write_request, sched, run,
          media_items, handles, task, files, content, log, track_and_log, mem, sink,
          reports, summarize_sent, caller_sender>>

Items == 1..env.nreq

\* the locals of the selector other than the sender
SelectVars == <<next_page_token, selection, selector, listings>>

(* ------------------------------------------------------------------ *)
(* u64                                                                 *)
(* ------------------------------------------------------------------ *)
\* A u64 (sleep_seed, pause_ms, the number of Event::RetryAfter) is kept as
\* its four 16-bit digits, the lowest first.
Limb == 2^16

\* the u64 of a number below 2^31
AsU64(n) == <<n % Limb, (n \div Limb) % Limb, 0, 0>>

\* the digits of 2 * v + carry, the highest of which may exceed 16 bits
Twice(v) ==
    LET d1 == 2 * v[1]
        d2 == 2 * v[2] + d1 \div Limb
        d3 == 2 * v[3] + d2 \div Limb
        d4 == 2 * v[4] + d3 \div Limb
    IN  <<d1 % Limb, d2 % Limb, d3 % Limb, d4>>

\* v * 2 does not fit into 64 bits
Overflows(v) == Twice(v)[4] >= Limb

\* v * 2 modulo 2^64
WrappingDouble(v) == [Twice(v) EXCEPT ![4] = @ % Limb]

\* v + n modulo 2^64, for a number n below 2^16
WrappingAdd(v, n) ==
    LET d1 == v[1] + n
        d2 == v[2] + d1 \div Limb
        d3 == v[3] + d2 \div Limb
        d4 == v[4] + d3 \div Limb
    IN  <<d1 % Limb, d2 % Limb, d3 % Limb, d4 % Limb>>

\* a < b
Less(a, b) ==
    \E k \in 1..4 : a[k] < b[k] /\ \A j \in (k + 1)..4 : a[j] = b[j]

(* ------------------------------------------------------------------ *)
(* Events (acc.rs)                                                     *)
(* ------------------------------------------------------------------ *)
\* Event::New, Retrying(file, count), RetryAfter(url, ms), Failed(file),
\* FailedHttp(file, status), Completed, Summarize.  i is the item whose path or
\* url the event carries (0 for Summarize), s which string of that item it is
\* ("path", "chunks" for <path>.chunks, "url", "" for none), h the redirect hop
\* whose url it is, a its number (count, ms, status).
Event(t, i, s, h, a) == [t |-> t, i |-> i, s |-> s, h |-> h, a |-> a]

(* ------------------------------------------------------------------ *)
(* Fetch task positions                                                *)
(* ------------------------------------------------------------------ *)
\* "queued"   not yet dequeued or not yet started
\* "start"    the task exists and has not run yet
\* "connect"  a GET is outstanding
\* "sleep"    backoff sleep after a connect timeout
\* "stream"   reading the body into the .chunks file
\* "rename"   body ended and flushed, before fs::rename
\* "complete" renamed, before sending Event::Completed
\* "ok"       returned Ok(())
\* "err"      returned Err
\* "panicked" the task panicked
\* "dropped"  the future was dropped with the panicking scheduler task
Running == {"start", "connect", "sleep", "stream", "rename", "complete"}
Ended == {"ok", "err", "panicked", "dropped"}

InFlight == {i \in Items : task[i].st \in Running}

SeedRange == TIMEOUT_MS .. (TIMEOUT_MS + TIMEOUT_MS \div 2 - 1)

\* A file name: <download_dir>/<name>, as the path argument of the given
\* recursion depth holds it, with or without IN_PROGRESS_SUFFIX
FileName(path, in_progress) == [name |-> path.name, hop |-> path.hop, chunks |-> in_progress]

\* MediaItem.filename of the i-th request of the catalog: distinct names, or
\* the names of the requests 1 and 2, 3 and 4, ... being the same
FileNameOf(i) == IF env.same_name THEN (i + 1) \div 2 ELSE i

\* a path that is the download directory itself, without the filename
PathOfDownloadDir(i) == [name |-> 0, hop |-> 0]

\* path.push(&filename) on a clone of download_dir
PathOf(i) == [name |-> FileNameOf(i), hop |-> 0]

\* The i-th request of the catalog as MediaAttr: requests of odd number are
\* ImageOrMotionPhotoBaseUrl(url, name, width, height, ctime), those of even
\* number VideoBaseUrl(url, name, ctime)
MediaAttr(i) ==
    IF i % 2 = 1
    THEN [kind |-> "ImageOrMotionPhotoBaseUrl", url |-> i, name |-> FileNameOf(i),
          width |-> 4000 + i, height |-> 3000 + i]
    ELSE [kind |-> "VideoBaseUrl", url |-> i, name |-> FileNameOf(i),
          width |-> 0, height |-> 0]

\* A url: the base url and what was appended to it; "=w-h" stands for
\* =w<width>-h<height> with the numbers in width and height
Url(base, suffix, width, height) ==
    [base |-> base, suffix |-> suffix, width |-> width, height |-> height]

\* the match on item of photos_to_disk
ResolveOrdered(item) ==
    IF item.kind = "ImageOrMotionPhotoBaseUrl"
    THEN Url(item.url, "=d", 0, 0)
    ELSE Url(item.url, "=dv", 0, 0)

\* the match on item of photos_to_disk_unordered
ResolveUnordered(item) ==
    IF item.kind = "ImageOrMotionPhotoBaseUrl"
    THEN Url(item.url, "=w-h", item.width, item.height)
    ELSE Url(item.url, "=dv", 0, 0)

\* body: the chunks body.data() has yielded, in order; written: the chunks
\* write_all has handed to the BufWriter of the .chunks file, in order;
\* completed: the local of that name, set when body.data() yields None;
\* resumed: body.data() has yielded a chunk after it had timed out before
NewTask == [st |-> "queued", sleep_seed |-> 0, pause_ms |-> AsU64(0), timeouts |-> 0,
            hops |-> 0, retries |-> 0, chunks |-> 0, gets |-> 0, faults |-> {},
            path |-> PathOf(0), body |-> <<>>, written |-> <<>>,
            completed |-> FALSE, resumed |-> FALSE, url |-> Url(0, "", 0, 0)]

\* The inputs of a run: the number of requests, the batch_size of the listings
\* and whether a listing may fail, whether it may be a dry run,
\* whether the transport and the file system may fail (errors, statuses other
\* than 200, timeouts), how often per item the transport times out on a
\* connect, redirects, delivers a chunk and stalls, and whether the catalog may
\* hold media items of the same filename (same_names: the choices, same_name:
\* the one this run has).
SysEnv == [nreq |-> NumReq, batch |-> NumReq, listing_faulty |-> FALSE,
           dry |-> BOOLEAN, faulty |-> TRUE,
           timeouts |-> MaxTimeouts, hops |-> MaxHops,
           chunks |-> MaxChunks, stalls |-> MaxStalls,
           seeds |-> {TIMEOUT_MS}, statuses |-> {404},
           same_names |-> {FALSE}, same_name |-> FALSE]

\* a transport and a file system without faults, no dry run
CleanEnv == [nreq |-> NumReq, batch |-> NumReq, listing_faulty |-> FALSE,
             dry |-> {FALSE}, faulty |-> FALSE,
             timeouts |-> 0, hops |-> 0,
             chunks |-> MaxChunks, stalls |-> 0,
             seeds |-> {TIMEOUT_MS}, statuses |-> {},
             same_names |-> {FALSE}, same_name |-> FALSE]

\* no dry run, empty bodies, and of all faults only those that end a fetch at
\* once: errors of the transport and of the file system
CrashEnv == [nreq |-> NumReq, batch |-> NumReq, listing_faulty |-> FALSE,
             dry |-> {FALSE}, faulty |-> TRUE,
             timeouts |-> 0, hops |-> 0,
             chunks |-> 0, stalls |-> 0,
             seeds |-> {TIMEOUT_MS}, statuses |-> {},
             same_names |-> BOOLEAN, same_name |-> FALSE]

\* more requests than the pool takes, empty bodies, no faults, no dry run
PoolEnv == [nreq |-> PoolReq, batch |-> PoolReq, listing_faulty |-> FALSE,
            dry |-> {FALSE}, faulty |-> FALSE,
            timeouts |-> 0, hops |-> 0,
            chunks |-> 0, stalls |-> 0,
            seeds |-> {TIMEOUT_MS}, statuses |-> {},
            same_names |-> {FALSE}, same_name |-> FALSE]

\* dry runs only, with more requests than the queue holds
DryEnv == [nreq |-> DryReq, batch |-> DryReq, listing_faulty |-> FALSE,
           dry |-> {TRUE}, faulty |-> TRUE,
           timeouts |-> MaxTimeouts, hops |-> MaxHops,
           chunks |-> MaxChunks, stalls |-> MaxStalls,
           seeds |-> {TIMEOUT_MS}, statuses |-> {404},
           same_names |-> {FALSE}, same_name |-> FALSE]

\* one item, many connect timeouts and redirects
FetchEnv == [nreq |-> 1, batch |-> 1, listing_faulty |-> FALSE,
             dry |-> {FALSE}, faulty |-> TRUE, timeouts |-> FetchTimeouts, hops |-> FetchHops,
             chunks |-> MaxChunks, stalls |-> MaxStalls,
             seeds |-> {TIMEOUT_MS, TIMEOUT_MS + 7, TIMEOUT_MS + TIMEOUT_MS \div 2 - 1},
             statuses |-> {404, 500},
             same_names |-> {FALSE}, same_name |-> FALSE]

\* one item, a long body transfer
StreamEnv == [nreq |-> 1, batch |-> 1, listing_faulty |-> FALSE,
              dry |-> {FALSE}, faulty |-> TRUE, timeouts |-> MaxTimeouts, hops |-> MaxHops,
              chunks |-> StreamChunks, stalls |-> StreamStalls,
              seeds |-> {TIMEOUT_MS}, statuses |-> {404},
              same_names |-> {FALSE}, same_name |-> FALSE]

\* dry runs of a catalog of several pages, whose listings may fail
PageEnv == [nreq |-> PageReq, batch |-> BatchSize, listing_faulty |-> TRUE,
            dry |-> {TRUE}, faulty |-> TRUE,
            timeouts |-> MaxTimeouts, hops |-> MaxHops,
            chunks |-> MaxChunks, stalls |-> MaxStalls,
            seeds |-> {TIMEOUT_MS}, statuses |-> {404},
            same_names |-> {FALSE}, same_name |-> FALSE]

\* one item, connect timeouts only, seeds from both ends of the range and
\* from both sides of 2^12
BackoffEnv == [nreq |-> 1, batch |-> 1, listing_faulty |-> FALSE,
               dry |-> {FALSE}, faulty |-> FALSE,
               timeouts |-> BackoffTimeouts, hops |-> 0,
               chunks |-> 0, stalls |-> 0,
               seeds |-> {TIMEOUT_MS, 2^12 - 1, 2^12, TIMEOUT_MS + TIMEOUT_MS \div 2 - 1},
               statuses |-> {},
               same_names |-> {FALSE}, same_name |-> FALSE]

\* two requests, one for a fetch that may panic and one for a fetch that is
\* then left behind retrying: connect timeouts, errors of the transport and of
\* the file system, empty bodies, no dry run
OrphanEnv == [nreq |-> 2, batch |-> 2, listing_faulty |-> FALSE,
              dry |-> {FALSE}, faulty |-> TRUE,
              timeouts |-> MaxTimeouts, hops |-> 0,
              chunks |-> 0, stalls |-> 0,
              seeds |-> {TIMEOUT_MS}, statuses |-> {},
              same_names |-> {FALSE}, same_name |-> FALSE]

InitWith(e) ==
    /\ \E same \in e.same_names : env = [e EXCEPT !.same_name = same]
    /\ unordered \in BOOLEAN
    /\ is_dry_run \in e.dry
    /\ next_page_token = 0
    /\ selection = <<>>
    /\ selector = "list"
    /\ listings = 0
    /\ enqueued = 0
    /\ closed = FALSE
    /\ write_request = <<>>
    /\ sched = "recv"
    /\ run = "pending"
    /\ media_items = <<>>
    /\ handles = <<>>
    /\ task = [i \in 1..e.nreq |-> NewTask]
    /\ files = {}
    /\ content = [f \in {} |-> <<>>]
    /\ log = [i \in 1..e.nreq |-> <<>>]
    /\ track_and_log = <<>>
    /\ mem = [_total |-> 0, _completed |-> 0, _failed |-> 0]
    /\ sink = "running"
    /\ reports = 0
    /\ summarize_sent = FALSE
    /\ caller_sender = TRUE

Init == InitWith(SysEnv)

InitFetch == InitWith(FetchEnv)

InitStream == InitWith(StreamEnv)

InitClean == InitWith(CleanEnv)

InitDry == InitWith(DryEnv)

InitCrash == InitWith(CrashEnv)

InitPool == InitWith(PoolEnv)

InitPage == InitWith(PageEnv)

InitBackoff == InitWith(BackoffEnv)

InitOrphan == InitWith(OrphanEnv)

(* ------------------------------------------------------------------ *)
(* Sending on the event channel                                        *)
(* ------------------------------------------------------------------ *)
\* a channel whose send succeeds whether or not the receiver is still there
SendWithoutReceiver(i, e, t, next) ==
    /\ track_and_log' = Append(track_and_log, e)
    /\ log' = [log EXCEPT ![i] = Append(@, e)]
    /\ task' = [task EXCEPT ![i] = [t EXCEPT !.st = next]]

\* a channel that hands the event sent last to the receiver first
SendJumpingTheQueue(i, e, t, next) ==
    IF sink = "running"
    THEN /\ track_and_log' = <<e>> \o track_and_log
         /\ log' = [log EXCEPT ![i] = Append(@, e)]
         /\ task' = [task EXCEPT ![i] = [t EXCEPT !.st = next]]
    ELSE /\ UNCHANGED <<track_and_log, log>>
         /\ task' = [task EXCEPT ![i] = [t EXCEPT !.st = "err"]]

\* track_and_log.send(e).await?  by the fetch of item i, whose locals are t:
\* the event is queued and the fetch goes on at `next`; when the receiver is
\* gone (the sink task has ended) send fails and `?` returns the Err.
Send(i, e, t, next) ==
    IF sink = "running"
    THEN /\ track_and_log' = Append(track_and_log, e)
         /\ log' = [log EXCEPT ![i] = Append(@, e)]
         /\ task' = [task EXCEPT ![i] = [t EXCEPT !.st = next]]
    ELSE /\ UNCHANGED <<track_and_log, log>>
         /\ task' = [task EXCEPT ![i] = [t EXCEPT !.st = "err"]]

\* a fetch step that sends nothing
Step(i, t) ==
    /\ task' = [task EXCEPT ![i] = t]
    /\ UNCHANGED <<track_and_log, log>>

Fault(t, f) == [t EXCEPT !.faults = @ \cup {f}]

\* the faults that are file system errors
FsFaults == {"create", "write", "flush", "rename"}

(* ------------------------------------------------------------------ *)
(* The download directory                                              *)
(* ------------------------------------------------------------------ *)
\* the directory after file n was created or overwritten with data d
WriteFile(fs, n, d) == [f \in DOMAIN fs \cup {n} |-> IF f = n THEN d ELSE fs[f]]

\* the directory after fs::rename(from, to)
RenameFile(fs, from, to) ==
    [f \in (DOMAIN fs \ {from}) \cup {to} |-> IF f = to THEN fs[from] ELSE fs[f]]

\* how an operation that can fail (a parse, a file system call) may end
Success == IF env.faulty THEN BOOLEAN ELSE {TRUE}

(* ------------------------------------------------------------------ *)
(* The selector (hub.rs)                                               *)
(* ------------------------------------------------------------------ *)
\* a queue that takes one request more than its depth
QueueHasRoomOffByOne(len) == len <= QUEUE_DEPTH

\* mpsc::channel(QUEUE_DEPTH): a send is granted a slot while fewer than
\* QUEUE_DEPTH requests are queued
QueueHasRoom(len) == len < QUEUE_DEPTH

\* The catalog in pages of batch_size media items: what select_from_list makes
\* of the response to the listing of a page, the token of the next page (0 for
\* None, after the last page) and the selection, every media item of the page
\* being selected (no from_date, no to_date).
select_from_list(page) ==
    LET first == (page - 1) * env.batch + 1
        last == IF page * env.batch < env.nreq THEN page * env.batch ELSE env.nreq
    IN  [token |-> IF page * env.batch < env.nreq THEN page + 1 ELSE 0,
         selection |-> [k \in 1..(last - first + 1) |-> first + k - 1]]

\* how doit() may end: Ok with a success status, Err, or Ok with another status
ListingOutcomes ==
    {"ok"} \cup (IF env.listing_faulty THEN {"err", "status"} ELSE {})

\* Where the selector goes on after a listing and after each send, with rest
\* the part of the selection not yet sent and token the token held: to the
\* next send, or to the test at the end of the loop body, which leaves the loop
\* when no token is held and lists again otherwise
AfterPage(rest, token) ==
    IF rest # <<>> THEN "send"
    ELSE IF token = 0 THEN "end"
    ELSE "list"

\* hub.media_items().list()...doit().await and the match on its result: a
\* page with a success status replaces the token and gives the selection to
\* send; an Err or another status is logged and leaves the token as it is
List ==
    /\ selector = "list"
    /\ \E outcome \in ListingOutcomes :
         IF outcome = "ok"
         THEN LET listed == select_from_list(IF next_page_token = 0 THEN 1
                                             ELSE next_page_token) IN
                /\ next_page_token' = listed.token
                /\ selection' = listed.selection
                /\ selector' = AfterPage(listed.selection, listed.token)
         ELSE /\ UNCHANGED <<next_page_token, selection>>
              /\ selector' = AfterPage(<<>>, next_page_token)
    /\ listings' = (listings + 1) % 2
    /\ UNCHANGED <<env, unordered, is_dry_run, enqueued, closed, write_request, sched,
                   run, media_items, handles, task, files, content, log, track_and_log,
                   mem, sink, reports, summarize_sent, caller_sender>>

\* transmit_to_write.send(item).await: suspended while the queue is full
Enqueue ==
    /\ selector = "send"
    /\ QueueHasRoom(Len(write_request))
    /\ write_request' = Append(write_request, Head(selection))
    /\ selection' = Tail(selection)
    /\ selector' = AfterPage(Tail(selection), next_page_token)
    /\ enqueued' = enqueued + 1
    /\ UNCHANGED <<env, unordered, is_dry_run, next_page_token, listings, closed, sched,
                   run, media_items,
                   handles, task, files, content, log, track_and_log, mem, sink, reports,
                   summarize_sent, caller_sender>>

\* no token is held: drop(transmit_to_write) and leave the loop
Close ==
    /\ selector = "end"
    /\ closed' = TRUE
    /\ selector' = "done"
    /\ UNCHANGED <<env, unordered, is_dry_run, next_page_token, selection, listings,
                   enqueued, write_request, sched, run,
                   media_items, handles, task, files, content, log, track_and_log, mem, sink,
                   reports, summarize_sent, caller_sender>>

(* ------------------------------------------------------------------ *)
(* photos_to_disk: a task per request, joined at the end               *)
(* ------------------------------------------------------------------ *)
\* the task created for item i, with the sleep seed drawn for it
Spawned(i, seed, url) ==
    [NewTask EXCEPT !.st = "start", !.sleep_seed = seed, !.pause_ms = AsU64(seed),
                    !.path = PathOf(i), !.url = url]

\* a receive loop that awaits each write thread before it receives again
SpawnOneAtATime ==
    /\ ~unordered
    /\ sched = "recv"
    /\ write_request # <<>>
    /\ InFlight = {}
    /\ LET i == Head(write_request) IN
         \E seed \in env.seeds :
            /\ seed \in SeedRange
            /\ task' = [task EXCEPT ![i] = Spawned(i, seed, ResolveOrdered(MediaAttr(i)))]
            /\ handles' = Append(handles, i)
    /\ write_request' = Tail(write_request)
    /\ UNCHANGED <<env, unordered, is_dry_run, SelectVars, enqueued, closed, sched, run,
                   media_items, files, content, log, track_and_log, mem, sink,
                   reports, summarize_sent, caller_sender>>

\* a receive loop that is handed the request enqueued last
SpawnNewest ==
    /\ ~unordered
    /\ sched = "recv"
    /\ write_request # <<>>
    /\ LET i == write_request[Len(write_request)] IN
         \E seed \in env.seeds :
            /\ seed \in SeedRange
            /\ task' = [task EXCEPT ![i] = Spawned(i, seed, ResolveOrdered(MediaAttr(i)))]
            /\ handles' = Append(handles, i)
    /\ write_request' = SubSeq(write_request, 1, Len(write_request) - 1)
    /\ UNCHANGED <<env, unordered, is_dry_run, SelectVars, enqueued, closed, sched, run,
                   media_items, files, content, log, track_and_log, mem, sink,
                   reports, summarize_sent, caller_sender>>

\* one turn of `while let Some(item) = write_request.recv().await`: spawn the
\* write thread and keep its handle
Spawn ==
    /\ ~unordered
    /\ sched = "recv"
    /\ write_request # <<>>
    /\ LET i == Head(write_request) IN
         \E seed \in env.seeds :
            /\ seed \in SeedRange
            /\ task' = [task EXCEPT ![i] = Spawned(i, seed, ResolveOrdered(MediaAttr(i)))]
            /\ handles' = Append(handles, i)
    /\ write_request' = Tail(write_request)
    /\ UNCHANGED <<env, unordered, is_dry_run, SelectVars, enqueued, closed, sched, run,
                   media_items, files, content, log, track_and_log, mem, sink, reports,
                   summarize_sent, caller_sender>>

\* a receive loop that ends as soon as it finds the queue empty
EndOfRequestsOnEmpty ==
    /\ ~unordered
    /\ sched = "recv"
    /\ write_request = <<>>
    /\ sched' = "join"
    /\ UNCHANGED <<env, unordered, is_dry_run, SelectVars, enqueued, closed, write_request, run,
                   media_items, handles, task, files, content, log, track_and_log,
                   mem, sink, reports, summarize_sent, caller_sender>>

\* recv() returns None: the queue is closed and empty
EndOfRequests ==
    /\ ~unordered
    /\ sched = "recv"
    /\ write_request = <<>>
    /\ closed
    /\ sched' = "join"
    /\ UNCHANGED <<env, unordered, is_dry_run, SelectVars, enqueued, closed, write_request, run,
                   media_items, handles, task, files, content, log, track_and_log, mem, sink,
                   reports, summarize_sent, caller_sender>>

\* future::try_join_all(handles).await?  The handles yield
\* Result<anyhow::Result<()>, JoinError>: a write thread that returned Err is an
\* Ok of the join, a write thread that panicked is its Err.  try_join_all is
\* ready with the Err as soon as one handle yields one, and with Ok when every
\* handle has yielded Ok.
JoinReady(states) ==
    \/ \E k \in DOMAIN states : states[k] = "panicked"
    \/ \A k \in DOMAIN states : states[k] \in Ended

JoinResult(states) ==
    IF \E k \in DOMAIN states : states[k] = "panicked" THEN "Err" ELSE "Ok"

try_join_all ==
    /\ ~unordered
    /\ sched = "join"
    /\ LET states == [k \in 1..Len(handles) |-> task[handles[k]].st] IN
         /\ JoinReady(states)
         /\ run' = JoinResult(states)
    /\ sched' = "done"
    /\ UNCHANGED <<env, unordered, is_dry_run, SelectVars, enqueued, closed, write_request,
                   media_items, handles, task, files, content, log, track_and_log, mem, sink,
                   reports, summarize_sent, caller_sender>>

(* ------------------------------------------------------------------ *)
(* photos_to_disk_unordered: drain, then a buffer_unordered pool       *)
(* ------------------------------------------------------------------ *)
\* while let Some(item) = write_request.recv().await { media_items.push(item) }
Drain ==
    /\ unordered
    /\ sched = "recv"
    /\ write_request # <<>>
    /\ media_items' = Append(media_items, Head(write_request))
    /\ write_request' = Tail(write_request)
    /\ UNCHANGED <<env, unordered, is_dry_run, SelectVars, enqueued, closed, sched, run, handles,
                   task, files, content, log, track_and_log, mem, sink, reports, summarize_sent, caller_sender>>

\* a drain that ends as soon as it finds the queue empty
DrainedOnEmpty ==
    /\ unordered
    /\ sched = "recv"
    /\ write_request = <<>>
    /\ sched' = "fanout"
    /\ UNCHANGED <<env, unordered, is_dry_run, SelectVars, enqueued, closed, write_request, run,
                   media_items, handles, task, files, content, log, track_and_log,
                   mem, sink, reports, summarize_sent, caller_sender>>

\* recv() returns None: the queue is closed and empty; the stream over
\* media_items is made
Drained ==
    /\ unordered
    /\ sched = "recv"
    /\ write_request = <<>>
    /\ closed
    /\ sched' = "fanout"
    /\ UNCHANGED <<env, unordered, is_dry_run, SelectVars, enqueued, closed, write_request, run,
                   media_items, handles, task, files, content, log, track_and_log, mem, sink,
                   reports, summarize_sent, caller_sender>>

\* a pool that starts futures only when none is in flight
PoolHasRoomWhenEmpty(inflight) == inflight = 0

\* a pool that admits one future too many
PoolHasRoomOffByOne(inflight) == inflight <= PoolCap

\* buffer_unordered(n) takes the next future from the stream while fewer than n
\* are in its set
PoolHasRoom(inflight) == inflight < PoolCap

Pull ==
    /\ unordered
    /\ sched = "fanout"
    /\ media_items # <<>>
    /\ PoolHasRoom(Cardinality(InFlight))
    /\ LET i == Head(media_items) IN
         \E seed \in env.seeds :
            /\ seed \in SeedRange
            /\ task' = [task EXCEPT ![i] = Spawned(i, seed, ResolveUnordered(MediaAttr(i)))]
    /\ media_items' = Tail(media_items)
    /\ UNCHANGED <<env, unordered, is_dry_run, SelectVars, enqueued, closed, write_request, sched,
                   run, handles, files, content, log, track_and_log, mem, sink, reports,
                   summarize_sent, caller_sender>>

\* collect::<Vec<anyhow::Result<()>>>() is ready when the stream is exhausted
\* and the set is empty; the results are dropped and the task returns Ok(())
Collect ==
    /\ unordered
    /\ sched = "fanout"
    /\ media_items = <<>>
    /\ InFlight = {}
    /\ sched' = "done"
    /\ run' = "Ok"
    /\ UNCHANGED <<env, unordered, is_dry_run, SelectVars, enqueued, closed, write_request,
                   media_items, handles, task, files, content, log, track_and_log, mem, sink,
                   reports, summarize_sent, caller_sender>>

(* ------------------------------------------------------------------ *)
(* download_and_write and the task around it                           *)
(* ------------------------------------------------------------------ *)
SchedVars == <<env, unordered, is_dry_run, SelectVars, enqueued, closed, write_request, sched, run,
               media_items, handles>>
SinkVars == <<mem, sink, reports, summarize_sent, caller_sender>>

\* the write thread with the is_dry_run test left out
StartIgnoringDryRun(i) ==
    /\ task[i].st = "start"
    /\ Send(i, Event("New", i, "", 0, 0), task[i], "connect")
    /\ UNCHANGED <<SchedVars, SinkVars, files, content>>

\* a write thread that announces the item in a dry run, too
StartAnnouncingDryRun(i) ==
    /\ task[i].st = "start"
    /\ IF is_dry_run
       THEN Send(i, Event("New", i, "", 0, 0), task[i], "ok")
       ELSE Send(i, Event("New", i, "", 0, 0), task[i], "connect")
    /\ UNCHANGED <<SchedVars, SinkVars, files, content>>

\* The body of the write thread up to the first GET: in a dry run it prints the
\* path and returns; otherwise it sends Event::New and enters
\* download_and_write, whose first statement parses the url.
Start(i) ==
    /\ task[i].st = "start"
    /\ IF is_dry_run
       THEN Step(i, [task[i] EXCEPT !.st = "ok"])
       ELSE \E uri_ok \in Success :
               IF uri_ok
               THEN Send(i, Event("New", i, "", 0, 0), task[i], "connect")
               ELSE Send(i, Event("New", i, "", 0, 0), Fault(task[i], "uri"), "err")
    /\ UNCHANGED <<SchedVars, SinkVars, files, content>>

\* tokio::time::timeout(TIMEOUT_MS, get) elapsed: announce the pause and sleep
ConnectTimeout(i) ==
    /\ task[i].st = "connect"
    /\ task[i].retries < env.timeouts
    /\ LET t == [Fault(task[i], "timeout") EXCEPT !.gets = @ + 1] IN
         Send(i, Event("RetryAfter", i, "url", t.hops, t.pause_ms), t, "sleep")
    /\ UNCHANGED <<SchedVars, SinkVars, files, content>>

\* a backoff that grows by the timeout instead of doubling
NextPauseLinear(pause) == WrappingAdd(pause, TIMEOUT_MS)

\* pause_ms *= 2 where the product fits, and in a build without overflow
\* checks also where it does not
NextPause(pause) == WrappingDouble(pause)

\* how `pause_ms *= 2` may end: a product that does not fit into a u64 panics
\* in a build with overflow checks and wraps in a build without
Multiplied(pause) == IF Overflows(pause) THEN {"wrapped", "overflow_panic"} ELSE {"fits"}

\* The task of item i panics, its locals being t.  In photos_to_disk the panic
\* ends the spawned write thread; in photos_to_disk_unordered the fetch runs
\* inside the scheduler task, which unwinds and drops every other future of
\* the pool and the unstarted requests.
Unwind(i, t) ==
    IF unordered
    THEN /\ task' = [j \in Items |->
                       IF j = i THEN [t EXCEPT !.st = "panicked"]
                       ELSE IF task[j].st \in Running
                            THEN [task[j] EXCEPT !.st = "dropped"]
                            ELSE task[j]]
         /\ sched' = "done"
         /\ run' = "Panic"
         /\ media_items' = <<>>
    ELSE /\ task' = [task EXCEPT ![i] = [t EXCEPT !.st = "panicked"]]
         /\ UNCHANGED <<sched, run, media_items>>

\* the sleep is over: double the pause and try again
Wake(i) ==
    /\ task[i].st = "sleep"
    /\ \E product \in Multiplied(task[i].pause_ms) :
         IF product = "overflow_panic"
         THEN Unwind(i, Fault(task[i], "overflow"))
         ELSE /\ task' = [task EXCEPT ![i] = [@ EXCEPT !.st = "connect",
                                                       !.pause_ms = NextPause(@),
                                                       !.retries = @ + 1]]
              /\ UNCHANGED <<sched, run, media_items>>
    /\ UNCHANGED <<env, unordered, is_dry_run, SelectVars, enqueued, closed, write_request, handles,
                   SinkVars, files, content, log, track_and_log>>

\* the GET ended with a hyper error: response.unwrap() panics
ConnectError(i) ==
    /\ task[i].st = "connect"
    /\ env.faulty
    /\ Unwind(i, [Fault(task[i], "connection") EXCEPT !.gets = @ + 1])
    /\ UNCHANGED <<env, unordered, is_dry_run, SelectVars, enqueued, closed, write_request, handles,
                   SinkVars, files, content, log, track_and_log>>

\* StatusCode::OK: create <path>.chunks and start reading the body
StatusOk(i) ==
    /\ task[i].st = "connect"
    /\ \E created \in Success :
         LET t == [task[i] EXCEPT !.gets = @ + 1, !.timeouts = 0] IN
           IF created
           THEN /\ Step(i, [t EXCEPT !.st = "stream"])
                /\ files' = files \cup {FileName(t.path, TRUE)}
                /\ content' = WriteFile(content, FileName(t.path, TRUE), <<>>)
           ELSE /\ Step(i, [Fault(t, "create") EXCEPT !.st = "err"])
                /\ UNCHANGED <<files, content>>
    /\ UNCHANGED <<SchedVars, SinkVars>>

\* a recursion that derives the path from the new location
RecursePathOfLocation(path, hops) == [path EXCEPT !.hop = hops]

\* a recursion that starts over with the seed it was given itself
RecurseSeedReset(sleep_seed, pause_ms) == AsU64(sleep_seed)

\* the sleep_seed argument of the recursion is the current pause_ms, which the
\* callee makes its own pause_ms
RecurseSeed(sleep_seed, pause_ms) == pause_ms

\* a 302 arm that, without a Location, reports the failure and tries again
StatusFoundRetries(i) ==
    /\ task[i].st = "connect"
    /\ \E location \in {"valid", "invalid", "none"} :
         LET t == [task[i] EXCEPT !.gets = @ + 1] IN
           CASE location = "valid" ->
                  /\ task[i].hops < env.hops
                  /\ Step(i, [Fault(t, "redirect") EXCEPT
                                 !.hops = @ + 1, !.st = "connect"])
             [] location = "invalid" ->
                  /\ env.faulty
                  /\ Step(i, [Fault(t, "location") EXCEPT !.st = "err"])
             [] location = "none" ->
                  /\ env.faulty
                  /\ Send(i, Event("Failed", i, "path", 0, 0), Fault(t, "nolocation"),
                          "connect")
    /\ UNCHANGED <<SchedVars, SinkVars, files, content>>

\* StatusCode::FOUND: with a Location that is a string, recurse with the
\* location as url and the current pause_ms as sleep_seed; a Location that is
\* not a string, or that Uri::from_str rejects, returns Err; without a Location
\* send Event::Failed(path)
RecursePath(path, hops) == path

StatusFound(i) ==
    /\ task[i].st = "connect"
    /\ \E location \in {"valid", "invalid", "none"} :
         LET t == [task[i] EXCEPT !.gets = @ + 1] IN
           CASE location = "valid" ->
                  /\ task[i].hops < env.hops
                  /\ Step(i, [Fault(t, "redirect") EXCEPT
                                 !.hops = @ + 1,
                                 !.path = RecursePath(t.path, t.hops + 1),
                                 !.pause_ms = RecurseSeed(t.sleep_seed, t.pause_ms),
                                 !.st = "connect"])
             [] location = "invalid" ->
                  /\ env.faulty
                  /\ Step(i, [Fault(t, "location") EXCEPT !.st = "err"])
             [] location = "none" ->
                  /\ env.faulty
                  /\ Send(i, Event("Failed", i, "path", 0, 0), Fault(t, "nolocation"), "ok")
    /\ UNCHANGED <<SchedVars, SinkVars, files, content>>

\* a catch-all arm that reports the status and tries the GET again
StatusOtherRetries(i) ==
    /\ task[i].st = "connect"
    /\ \E status \in env.statuses :
         /\ status \notin {HTTP_OK, HTTP_FOUND}
         /\ Send(i, Event("FailedHttp", i, "path", 0, status),
                 [Fault(task[i], "status") EXCEPT !.gets = @ + 1], "connect")
    /\ UNCHANGED <<SchedVars, SinkVars, files, content>>

\* any other status: send Event::FailedHttp(path, status)
StatusOther(i) ==
    /\ task[i].st = "connect"
    /\ \E status \in env.statuses :
         /\ status \notin {HTTP_OK, HTTP_FOUND}
         /\ Send(i, Event("FailedHttp", i, "path", 0, status),
                 [Fault(task[i], "status") EXCEPT !.gets = @ + 1], "ok")
    /\ UNCHANGED <<SchedVars, SinkVars, files, content>>

\* a write_all that puts the chunk in front of what was written before
WriteAllReversed(written, chunk) == <<chunk>> \o written

\* outfile.write_all(&chunk): the chunk follows what was written before
WriteAll(written, chunk) == Append(written, chunk)

\* a chunk loop with a deadline: it gives up at the second chunk
ChunkReadWithDeadline(i) ==
    /\ task[i].st = "stream"
    /\ task[i].chunks < env.chunks
    /\ LET chunk == task[i].chunks + 1 IN
         IF chunk >= 2
         THEN Send(i, Event("Failed", i, "chunks", 0, 0),
                   [task[i] EXCEPT !.chunks = chunk, !.body = Append(@, chunk)], "ok")
         ELSE Step(i, [task[i] EXCEPT !.chunks = chunk,
                                      !.body = Append(@, chunk),
                                      !.written = WriteAll(@, chunk)])
    /\ UNCHANGED <<SchedVars, SinkVars, files, content>>

\* a chunk loop whose count of timeouts starts over with every chunk received
ChunkReadResettingStalls(i) ==
    /\ task[i].st = "stream"
    /\ task[i].chunks < env.chunks
    /\ LET chunk == task[i].chunks + 1 IN
         Step(i, [task[i] EXCEPT !.chunks = chunk,
                                 !.body = Append(@, chunk),
                                 !.written = WriteAll(@, chunk),
                                 !.resumed = @ \/ task[i].timeouts > 0,
                                 !.timeouts = 0])
    /\ UNCHANGED <<SchedVars, SinkVars, files, content>>

\* body.data() gave something within 5000 ms: `chunk?` returns a transport
\* error, write_all hands the chunk to the BufWriter or returns its error.  The
\* k-th chunk of a body is named k.
ChunkRead(i) ==
    /\ task[i].st = "stream"
    /\ task[i].chunks < env.chunks
    /\ \E got \in {"written"} \cup (IF env.faulty THEN {"read_error", "write_error"} ELSE {}) :
         LET chunk == task[i].chunks + 1 IN
         CASE got = "written" ->
                Step(i, [task[i] EXCEPT !.chunks = chunk,
                                        !.body = Append(@, chunk),
                                        !.written = WriteAll(@, chunk),
                                        !.resumed = @ \/ task[i].timeouts > 0])
           [] got = "read_error" -> Step(i, [Fault(task[i], "body") EXCEPT !.st = "err"])
           [] got = "write_error" ->
                Step(i, [Fault(task[i], "write") EXCEPT !.chunks = chunk,
                                                        !.body = Append(@, chunk),
                                                        !.resumed = @ \/ task[i].timeouts > 0,
                                                        !.st = "err"])
    /\ UNCHANGED <<SchedVars, SinkVars, files, content>>

\* outfile.flush(): what write_all handed to the BufWriter is in the file the
\* fetch has open, which is <path>.chunks, or <path> when the fetch of a
\* request of the same filename has renamed it in the meantime
Flushed(fs, t) ==
    IF FileName(t.path, TRUE) \in DOMAIN fs
    THEN WriteFile(fs, FileName(t.path, TRUE), t.written)
    ELSE IF FileName(t.path, FALSE) \in DOMAIN fs
         THEN WriteFile(fs, FileName(t.path, FALSE), t.written)
         ELSE fs

\* a function that renames whether or not the body was completed
AfterLoopAlwaysRenames(completed) == "rename"

\* after the chunk loop and the flush: `if completed { rename; send Completed }`,
\* then Ok(())
AfterLoop(completed) == IF completed THEN "rename" ELSE "ok"

\* a chunk loop that warns at every 20th timeout and never gives up
StallVerdictNeverGivesUp(count) ==
    IF count % STALL_WARN = 0 THEN "warn" ELSE "continue"

\* a chunk loop that tests for the warning before it tests for giving up
StallVerdictWarnFirst(count) ==
    IF count % STALL_WARN = 0 THEN "warn"
    ELSE IF count % STALL_GIVE_UP = 0 THEN "give_up"
    ELSE "continue"

\* a chunk loop that gives up one timeout early
StallVerdictEarly(count) ==
    IF count % (STALL_GIVE_UP - 1) = 0 THEN "give_up"
    ELSE IF count % STALL_WARN = 0 THEN "warn"
    ELSE "continue"

\* what the timeout branch of the chunk loop does at a count of timeouts
StallVerdict(count) ==
    IF count % STALL_GIVE_UP = 0 THEN "give_up"
    ELSE IF count % STALL_WARN = 0 THEN "warn"
    ELSE "continue"

\* body.data() timed out: count it; at every 60th give up (send Event::Failed
\* with the .chunks path, leave the loop, flush, return Ok), at every 20th send
\* Event::Retrying, otherwise just read again
ChunkTimeout(i) ==
    /\ task[i].st = "stream"
    /\ task[i].timeouts < env.stalls
    /\ LET t == [Fault(task[i], "stall") EXCEPT !.timeouts = (@ + 1) % U8] IN
         CASE StallVerdict(t.timeouts) = "give_up" ->
                IF sink # "running"
                THEN /\ Send(i, Event("Failed", i, "chunks", 0, 0), t, "err")
                     /\ UNCHANGED content
                ELSE \E flushed \in Success :
                        IF flushed
                        THEN /\ Send(i, Event("Failed", i, "chunks", 0, 0), t,
                                     AfterLoop(t.completed))
                             /\ content' = Flushed(content, t)
                        ELSE /\ Send(i, Event("Failed", i, "chunks", 0, 0),
                                     Fault(t, "flush"), "err")
                             /\ UNCHANGED content
           [] StallVerdict(t.timeouts) = "warn" ->
                /\ Send(i, Event("Retrying", i, "chunks", 0, t.timeouts), t, "stream")
                /\ UNCHANGED content
           [] OTHER -> Step(i, t) /\ UNCHANGED content
    /\ UNCHANGED <<SchedVars, SinkVars, files>>

\* body.data() gave None: completed = true, leave the loop and flush
EndOfBody(i) ==
    /\ task[i].st = "stream"
    /\ \E flushed \in Success :
         IF flushed
         THEN /\ Step(i, [task[i] EXCEPT !.completed = TRUE, !.st = AfterLoop(TRUE)])
              /\ content' = Flushed(content, task[i])
         ELSE /\ Step(i, [Fault(task[i], "flush") EXCEPT !.completed = TRUE,
                                                         !.st = "err"])
              /\ UNCHANGED content
    /\ UNCHANGED <<SchedVars, SinkVars, files>>

\* a fetch that goes on to report the completion without renaming the file
RenameSkipped(i) ==
    /\ task[i].st = "rename"
    /\ Step(i, [task[i] EXCEPT !.st = "complete"])
    /\ UNCHANGED <<SchedVars, SinkVars, files, content>>

\* fs::rename(&chunks_written, &path).await?  It fails when <path>.chunks is
\* not there (the fetch of a request of the same filename has renamed it).
Rename(i) ==
    /\ task[i].st = "rename"
    /\ \E renamed \in (IF FileName(task[i].path, TRUE) \in files THEN Success ELSE {FALSE}) :
         IF renamed
         THEN /\ Step(i, [task[i] EXCEPT !.st = "complete"])
              /\ files' = (files \ {FileName(task[i].path, TRUE)})
                               \cup {FileName(task[i].path, FALSE)}
              /\ content' = RenameFile(content, FileName(task[i].path, TRUE),
                                        FileName(task[i].path, FALSE))
         ELSE /\ Step(i, [Fault(task[i], "rename") EXCEPT !.st = "err"])
              /\ UNCHANGED <<files, content>>
    /\ UNCHANGED <<SchedVars, SinkVars>>

\* a fetch in which every call of the redirect chain reports the completion
CompleteAtEveryHop(i) ==
    /\ task[i].st = "complete"
    /\ Send(i, Event("Completed", i, "", 0, 0), [task[i] EXCEPT !.hops = @ - 1],
            IF task[i].hops > 0 THEN "complete" ELSE "ok")
    /\ UNCHANGED <<SchedVars, SinkVars, files, content>>

\* track_and_log.send(Event::Completed).await?
Complete(i) ==
    /\ task[i].st = "complete"
    /\ Send(i, Event("Completed", i, "", 0, 0), task[i], "ok")
    /\ UNCHANGED <<SchedVars, SinkVars, files, content>>

(* ------------------------------------------------------------------ *)
(* track_events (acc.rs) and the caller's Summarize                    *)
(* ------------------------------------------------------------------ *)
\* the arm for Event::FailedHttp, which the accumulator's enum does not list
TrackedFailedHttp(m) == [m EXCEPT !._failed = @ + 1]

\* a Tracker that books a completion as a failure
TrackedMiscounting(m, e) ==
    CASE e.t = "New" -> [m EXCEPT !._total = @ + 1]
      [] e.t \in {"Failed", "FailedHttp", "Completed"} -> [m EXCEPT !._failed = @ + 1]
      [] OTHER -> m

\* a Tracker that books every announced retry as a failure
TrackedCountingRetries(m, e) ==
    CASE e.t = "New" -> [m EXCEPT !._total = @ + 1]
      [] e.t \in {"Failed", "FailedHttp", "Retrying", "RetryAfter"} ->
            [m EXCEPT !._failed = @ + 1]
      [] e.t = "Completed" -> [m EXCEPT !._completed = @ + 1]
      [] OTHER -> m

\* the Tracker after one event
Tracked(m, e) ==
    CASE e.t = "New" -> [m EXCEPT !._total = @ + 1]
      [] e.t = "Failed" -> [m EXCEPT !._failed = @ + 1]
      [] e.t = "FailedHttp" -> TrackedFailedHttp(m)
      [] e.t = "Completed" -> [m EXCEPT !._completed = @ + 1]
      [] OTHER -> m

\* Every Sender<Event> has been dropped: the one moved into the scheduler
\* (dropped when the scheduler task ends), the clones of the fetches (dropped
\* when they end) and the caller's.
SendersDropped ==
    /\ ~caller_sender
    /\ sched = "done"
    /\ \A i \in Items : task[i].st \notin Running

\* a receive loop whose Summarize arm reports and does not break
track_events_without_break ==
    /\ sink = "running"
    /\ track_and_log # <<>>
    /\ LET e == Head(track_and_log) IN
         /\ mem' = Tracked(mem, e)
         /\ reports' = IF e.t = "Summarize" THEN reports + 1 ELSE reports
    /\ track_and_log' = Tail(track_and_log)
    /\ UNCHANGED <<SchedVars, task, files, content, log, sink, summarize_sent,
                   caller_sender>>

\* One turn of `while let Some(event) = events.recv().await`.  recv() yields
\* the next event; Summarize logs the report and breaks, which ends the task and
\* drops the receiver.  On an empty channel whose senders are all dropped
\* recv() yields None and the loop, and with it the task, ends.
track_events ==
    /\ sink = "running"
    /\ IF track_and_log # <<>>
       THEN LET e == Head(track_and_log) IN
              /\ mem' = Tracked(mem, e)
              /\ IF e.t = "Summarize"
                 THEN sink' = "done" /\ reports' = reports + 1
                 ELSE UNCHANGED <<sink, reports>>
              /\ track_and_log' = Tail(track_and_log)
       ELSE /\ SendersDropped
            /\ sink' = "done"
            /\ UNCHANGED <<mem, reports, track_and_log>>
    /\ UNCHANGED <<SchedVars, task, files, content, log, summarize_sent, caller_sender>>

\* the caller awaits the scheduler's handle and then sends Event::Summarize
Summarize ==
    /\ run # "pending"
    /\ ~summarize_sent
    /\ caller_sender
    /\ sink = "running"
    /\ track_and_log' = Append(track_and_log, Event("Summarize", 0, "", 0, 0))
    /\ summarize_sent' = TRUE
    /\ UNCHANGED <<SchedVars, task, files, content, log, mem, sink, reports,
                   caller_sender>>

\* the caller lets go of its Sender<Event> without having sent Summarize
DropSender ==
    /\ run # "pending"
    /\ ~summarize_sent
    /\ caller_sender
    /\ caller_sender' = FALSE
    /\ UNCHANGED <<SchedVars, task, files, content, log, track_and_log, mem, sink,
                   reports, summarize_sent>>

(* ------------------------------------------------------------------ *)
(* The system                                                          *)
(* ------------------------------------------------------------------ *)
Fetch ==
    \E i \in Items :
       \/ Start(i)
       \/ ConnectTimeout(i)
       \/ Wake(i)
       \/ ConnectError(i)
       \/ StatusOk(i)
       \/ StatusFound(i)
       \/ StatusOther(i)
       \/ ChunkRead(i)
       \/ ChunkTimeout(i)
       \/ EndOfBody(i)
       \/ Rename(i)
       \/ Complete(i)

Next ==
    \/ List
    \/ Enqueue
    \/ Close
    \/ Spawn
    \/ EndOfRequests
    \/ try_join_all
    \/ Drain
    \/ Drained
    \/ Pull
    \/ Collect
    \/ Fetch
    \/ track_events
    \/ Summarize
    \/ DropSender

Spec == Init /\ [][Next]_vars

SpecFetch == InitFetch /\ [][Next]_vars

SpecStream == InitStream /\ [][Next]_vars

SpecClean == InitClean /\ [][Next]_vars

SpecDry == InitDry /\ [][Next]_vars

SpecCrash == InitCrash /\ [][Next]_vars

SpecPool == InitPool /\ [][Next]_vars

SpecBackoff == InitBackoff /\ [][Next]_vars

SpecOrphan == InitOrphan /\ [][Next]_vars

\* The selector and the scheduler are tasks the runtime keeps running: a step
\* of theirs that stays possible is taken.  How a listing ends is up to the
\* service.
SpecPage ==
    /\ InitPage /\ [][Next]_vars
    /\ WF_vars(List) /\ WF_vars(Enqueue) /\ WF_vars(Close)
    /\ WF_vars(Spawn) /\ WF_vars(Drain)

(* ------------------------------------------------------------------ *)
(* Properties                                                          *)
(* ------------------------------------------------------------------ *)
Last(s) == s[Len(s)]

EventsOf(i, types) == SelectSeq(log[i], LAMBDA e : e.t \in types)

\* the fetches of all items have ended or never began
Quiet == \A i \in Items : task[i].st \notin Running

FilesOf(i) == {f \in files : f.name = FileNameOf(i)}

\* C1: in a run that is not a dry run and in which the transport and the file
\* system inflicted no fault on any item, the report the sink makes on
\* Summarize (sent after the scheduler's run returned) shows total = N,
\* completed = N, failed = 0, under either scheduler.
C1_FaultFreeReport ==
    (sink = "done" /\ ~is_dry_run /\ \A i \in Items : task[i].faults = {})
        => mem = [_total |-> env.nreq, _completed |-> env.nreq, _failed |-> 0]

C1_Witness ==
    /\ sink = "done"
    /\ ~is_dry_run
    /\ unordered
    /\ \A i \in Items : task[i].faults = {} /\ task[i].chunks > 0
    /\ mem._completed = env.nreq

\* C2: once every fetch has ended and the sink has processed Summarize, the
\* counters satisfy total = completed + failed, whatever the transport did.
C2_Accounting ==
    (sink = "done" /\ Quiet) => mem._total = mem._completed + mem._failed

\* C3: the scheduler's run resolves only after the fetch of every request has
\* ended (normally or abnormally); when it has resolved no fetch is still
\* connecting, sleeping, streaming or writing, and none is left unstarted.
C3_RunWaitsForAll ==
    run # "pending" => \A i \in Items : task[i].st \in {"ok", "err", "panicked"}

\* C4: no request is fetched twice, and none is dropped: when the run is over
\* and no fetch is in flight, in a run that is not a dry run, every enqueued
\* request has had its Event::New sent, exactly once.
C4_EveryRequestStartedOnce ==
    /\ \A i \in Items : Len(EventsOf(i, {"New"})) <= 1
    /\ (run # "pending" /\ Quiet /\ ~is_dry_run)
          => \A i \in 1..enqueued : Len(EventsOf(i, {"New"})) = 1

\* C5: the failure of one item never makes the scheduler's run end with
\* anything but Ok, never ends it while another fetch is under way, and never
\* takes another request's fetch away before its own end.
C5_FailureIsolated ==
    /\ run \in {"pending", "Ok"}
    /\ \A i \in Items : task[i].st # "dropped"
    /\ run = "Ok" => \A i \in Items : task[i].st \in {"ok", "err"}

\* the steps of the selector, the scheduler and the fetches
Progress ==
    \/ List
    \/ Enqueue
    \/ Close
    \/ Spawn
    \/ EndOfRequests
    \/ try_join_all
    \/ Drain
    \/ Drained
    \/ Pull
    \/ Collect
    \/ Fetch

\* C6: in a dry run no GET is issued and no file exists at any time, the run
\* never ends otherwise than Ok, and as long as it has not returned the
\* selector, the scheduler or a fetch can take a step (so the queue is drained
\* and the run returns once the selector has closed it).
C6_DryRun ==
    is_dry_run =>
        /\ \A i \in Items : task[i].gets = 0 /\ task[i].st \in {"queued", "start", "ok"}
        /\ files = {}
        /\ run \in {"pending", "Ok"}
        /\ run = "pending" => ENABLED Progress
        /\ run = "Ok" => closed /\ write_request = <<>> /\ \A i \in Items : task[i].st = "ok"

C6_Witness ==
    /\ is_dry_run
    /\ ~unordered
    /\ run = "Ok"
    /\ \A i \in Items : task[i].st = "ok"

\* C7: in photos_to_disk_unordered the fetches that have started and not ended
\* never number more than the cap of the pool.
C7_PoolCap ==
    unordered => Cardinality(InFlight) <= PoolCap

C7_Witness ==
    /\ unordered
    /\ ~is_dry_run
    /\ env.nreq > PoolCap
    /\ Cardinality(InFlight) = PoolCap
    /\ media_items # <<>>
    /\ \E i \in InFlight : task[i].st = "stream"

C9_OtherStatus ==
    \A i \in Items :
       "status" \in task[i].faults =>
          /\ Len(EventsOf(i, {"FailedHttp"})) = 1
          /\ Last(log[i]).t = "FailedHttp"
          /\ Last(log[i]).i = i /\ Last(log[i]).s = "path"
          /\ Last(log[i]).a \in env.statuses \ {HTTP_OK, HTTP_FOUND}
          /\ EventsOf(i, {"Completed", "Failed"}) = <<>>
          /\ task[i].st = "ok"
          /\ task[i].gets = task[i].retries + task[i].hops + 1
          /\ FilesOf(i) = {}

C9_Witness ==
    \E i \in Items :
       /\ "status" \in task[i].faults
       /\ Last(log[i]).a = 500
       /\ task[i].st = "ok"
       /\ task[i].gets = 1

\* C10: an item that met k >= 1 redirects with a Location, then 200 and a clean
\* body, and has returned, has sent exactly one Completed and left exactly one
\* file, the one at its original path; no file is ever made at a path other
\* than an item's original one.
C10_RedirectOneFile ==
    /\ \A f \in files : f.hop = 0
    /\ \A i \in Items :
          (task[i].faults = {"redirect"} /\ task[i].hops >= 1 /\ task[i].st = "ok")
             => /\ Len(EventsOf(i, {"Completed"})) = 1
                /\ EventsOf(i, {"Failed", "FailedHttp"}) = <<>>
                /\ FilesOf(i) = {FileName(PathOf(i), FALSE)}

C10_Witness ==
    \E i \in Items :
       /\ task[i].faults = {"redirect"}
       /\ task[i].hops = FetchHops
       /\ FetchHops >= 2
       /\ task[i].st = "ok"
       /\ task[i].chunks > 0

\* the final and the in-progress file name of item i
FinalOf(i) == FileName(PathOf(i), FALSE)

PartialOf(i) == FileName(PathOf(i), TRUE)

\* the sequence 1, 2, ..., n
UpTo(n) == [k \in 1..n |-> k]

\* C11: an item whose body transfer met exactly 59 chunk timeouts and nothing
\* else after the 200, and which has returned, has sent exactly one Completed
\* and no Failed, and its final file holds the chunks received, in order, its
\* .chunks file being gone; an item that met a 60th chunk timeout has sent
\* exactly one Failed (with the .chunks name) and no Completed, its .chunks
\* file exists and its final file does not.
C11_AbandonThreshold ==
    \A i \in Items :
       /\ (/\ task[i].timeouts = STALL_GIVE_UP - 1
           /\ task[i].faults \subseteq {"stall", "timeout"}
           /\ task[i].st = "ok")
             => /\ Len(EventsOf(i, {"Completed"})) = 1
                /\ EventsOf(i, {"Failed", "FailedHttp"}) = <<>>
                /\ FilesOf(i) = {FinalOf(i)}
                /\ content[FinalOf(i)] = task[i].body
                /\ task[i].body = UpTo(task[i].chunks)
       /\ task[i].timeouts = STALL_GIVE_UP
             => /\ Len(EventsOf(i, {"Failed"})) = 1
                /\ Last(log[i]).t = "Failed" /\ Last(log[i]).s = "chunks"
                /\ EventsOf(i, {"Completed"}) = <<>>
                /\ task[i].st \in {"ok", "err"}
                /\ FilesOf(i) = {PartialOf(i)}

C11_Witness ==
    \E i \in Items :
       /\ task[i].timeouts = STALL_GIVE_UP - 1
       /\ task[i].faults = {"stall"}
       /\ task[i].st = "ok"
       /\ Len(task[i].body) = StreamChunks
       /\ StreamChunks >= 2
       /\ content[FinalOf(i)] = UpTo(StreamChunks)

\* the fetch of item i has failed or was abandoned
Unsuccessful(i) ==
    \/ task[i].faults \cap ({"uri", "connection", "location", "nolocation", "status",
                             "body"} \cup FsFaults) # {}
    \/ task[i].timeouts = STALL_GIVE_UP

\* the fetch of item i failed or was abandoned after it had made the .chunks file
UnsuccessfulInBody(i) ==
    \/ task[i].faults \cap {"body", "write", "flush", "rename"} # {}
    \/ task[i].timeouts = STALL_GIVE_UP

C13_FsErrorReported ==
    \A i \in Items :
       task[i].faults \cap FsFaults # {} =>
          /\ task[i].st \in Ended
          /\ task[i].gets = task[i].retries + task[i].hops + 1
          /\ Len(EventsOf(i, {"Failed", "FailedHttp"})) = 1
          /\ Last(log[i]).t \in {"Failed", "FailedHttp"}

\* C14: the request queue never holds more than QUEUE_DEPTH requests, and
\* while it holds QUEUE_DEPTH the selector's send cannot complete: only a
\* dequeue by the scheduler can be the next step on the queue.
C14_QueueBounded ==
    /\ Len(write_request) <= QUEUE_DEPTH
    /\ Len(write_request) = QUEUE_DEPTH => ~ENABLED Enqueue

C14_Witness ==
    /\ Len(write_request) = QUEUE_DEPTH
    /\ enqueued < env.nreq
    /\ ~closed
    /\ ENABLED (Spawn \/ Drain)

\* C15: the scheduler has left its receive loop only if the selector has
\* closed the queue and the queue is empty, every request enqueued having been
\* dequeued: in photos_to_disk each has its handle, in
\* photos_to_disk_unordered each is in media_items or was started.
C15_DrainBeforeEnd ==
    sched # "recv" =>
       /\ closed
       /\ write_request = <<>>
       /\ enqueued = env.nreq
       /\ ~unordered => Len(handles) = env.nreq
       /\ unordered =>
             Len(media_items) + Cardinality({i \in Items : task[i].st # "queued"})
                = env.nreq

C15_Witness ==
    /\ closed
    /\ sched = "recv"
    /\ Len(write_request) = QUEUE_DEPTH
    /\ env.nreq > QUEUE_DEPTH

\* C16: requests leave the queue in the order they entered it: the queue
\* holds the requests not yet dequeued in enqueue order, the handles of
\* photos_to_disk are those of the requests dequeued, in enqueue order, and
\* media_items of photos_to_disk_unordered are in enqueue order.  (The events
\* of different items are under no such order: see the witness.)
C16_Fifo ==
    LET dequeued == enqueued - Len(write_request) IN
      /\ write_request = [k \in 1..Len(write_request) |-> dequeued + k]
      /\ ~unordered => handles = UpTo(dequeued)
      /\ (unordered /\ sched # "done") =>
            media_items = [k \in 1..Len(media_items) |->
                              dequeued - Len(media_items) + k]

C16_Witness ==
    /\ ~unordered
    /\ handles = <<1, 2>>
    /\ \E j, k \in 1..Len(track_and_log) :
          /\ j < k
          /\ track_and_log[j].t = "Completed" /\ track_and_log[j].i = 2
          /\ track_and_log[k].t = "Completed" /\ track_and_log[k].i = 1

\* the events of the given types in a sequence of events
OfTypes(events, types) == SelectSeq(events, LAMBDA e : e.t \in types)

\* how many events of the given types the items 1..n have sent
RECURSIVE Sent(_, _)
Sent(n, types) ==
    IF n = 0 THEN 0 ELSE Len(EventsOf(n, types)) + Sent(n - 1, types)

\* how many events of the given types the sink has received: those sent and no
\* longer in the channel
Received(types) == Sent(env.nreq, types) - Len(OfTypes(track_and_log, types))

\* C17: as long as the sink has not processed Summarize, total is the number
\* of New events it has received, completed the number of Completed events,
\* and failed the number of Failed and FailedHttp events; Retrying and
\* RetryAfter events count for nothing.
C17_CountersMatchEvents ==
    reports = 0 =>
       /\ mem._total = Received({"New"})
       /\ mem._completed = Received({"Completed"})
       /\ mem._failed = Received({"Failed", "FailedHttp"})

C17_Witness ==
    /\ reports = 0
    /\ sink = "running"
    /\ track_and_log = <<>>
    /\ Received({"Retrying"}) = 2
    /\ Received({"RetryAfter"}) = 1
    /\ Received({"Failed"}) = 1
    /\ mem = [_total |-> 1, _completed |-> 0, _failed |-> 1]

\* C18: the sink reports once at most, and only on taking Summarize from the
\* channel, the step at which it ends; once it has reported, its counters and
\* the number of reports stay as they are, and the channel stays as it is:
\* what is left in it is never received and later sends are refused.
C18_SummarizeEndsSink ==
    [][/\ reports' \in {reports, reports + 1}
       /\ reports' = reports + 1 =>
             /\ reports = 0
             /\ track_and_log # <<>> /\ Head(track_and_log).t = "Summarize"
             /\ mem' = mem
             /\ sink' = "done"
       /\ reports = 1 =>
             /\ mem' = mem
             /\ reports' = 1
             /\ sink' = "done"
             /\ track_and_log' = track_and_log]_vars

C18_Witness ==
    /\ reports = 1
    /\ sink = "done"
    /\ track_and_log # <<>>
    /\ \E i \in Items : task[i].st = "err" /\ task[i].faults = {}
    /\ mem._total > mem._completed + mem._failed

\* C19: the sink's task has ended only after it has processed Summarize and
\* made its report.
C19_ReportBeforeEnd ==
    sink = "done" => reports = 1

\* C20: an item that got a 302 without a Location has sent exactly one Failed,
\* as its last event, carrying its final path, has sent no Completed and no
\* FailedHttp, has returned (so no GET follows), and no file of its name
\* exists.
C20_RedirectWithoutLocation ==
    \A i \in Items :
       "nolocation" \in task[i].faults =>
          /\ Len(EventsOf(i, {"Failed"})) = 1
          /\ Last(log[i]).t = "Failed"
          /\ Last(log[i]).i = i /\ Last(log[i]).s = "path"
          /\ EventsOf(i, {"Completed", "FailedHttp"}) = <<>>
          /\ task[i].st = "ok"
          /\ task[i].gets = task[i].retries + task[i].hops + 1
          /\ FilesOf(i) = {}

C20_Witness ==
    \E i \in Items :
       /\ "nolocation" \in task[i].faults
       /\ task[i].hops = 1
       /\ task[i].retries = 1
       /\ task[i].st = "ok"
       /\ Last(log[i]).t = "Failed"

\* C21: for an item that met nothing but connect timeouts and redirects with a
\* Location, the k-th RetryAfter of the item, whatever the hop it is sent on,
\* carries seed * 2^(k-1), and the pause the item holds after k timeouts is
\* seed * 2^k: a redirect carries the pause on and never resets it.
C21_BackoffAcrossRedirects ==
    \A i \in Items :
       ("redirect" \in task[i].faults /\ task[i].faults \subseteq {"timeout", "redirect"}) =>
          LET ra == EventsOf(i, {"RetryAfter"}) IN
            /\ \A k \in 1..Len(ra) : ra[k].a = AsU64(task[i].sleep_seed * 2^(k - 1))
            /\ task[i].st = "connect" =>
                  task[i].pause_ms = AsU64(task[i].sleep_seed * 2^Len(ra))

C21_Witness ==
    \E i \in Items :
       LET ra == EventsOf(i, {"RetryAfter"}) IN
         /\ task[i].faults = {"timeout", "redirect"}
         /\ Len(ra) = 3
         /\ ra[1].h = 0 /\ ra[2].h = 1 /\ ra[3].h = 2
         /\ ra[3].a = AsU64(4 * task[i].sleep_seed)
         /\ task[i].st = "connect"

\* C22: an item all of whose GETs so far have timed out (it met no other
\* fault, and no 200 has made its .chunks file) has sent one RetryAfter per
\* GET, all for the same url, and no Completed, Failed or FailedHttp; its
\* fetch is sleeping or has the next GET outstanding, and the scheduler's run
\* has not resolved.
C22_TimeoutsNeverEnd ==
    \A i \in Items :
       (task[i].faults = {"timeout"} /\ FilesOf(i) = {}) =>
             /\ task[i].gets = Len(EventsOf(i, {"RetryAfter"}))
             /\ task[i].st \in {"connect", "sleep"}
             /\ task[i].st = "connect" => task[i].retries = task[i].gets
             /\ task[i].st = "sleep" => task[i].retries = task[i].gets - 1
             /\ \A k \in 1..Len(EventsOf(i, {"RetryAfter"})) :
                   EventsOf(i, {"RetryAfter"})[k].h = 0
             /\ EventsOf(i, {"Completed", "Failed", "FailedHttp"}) = <<>>
             /\ run = "pending"

\* the locator the specification gives a request: the size suffix for an
\* image, =dv for a video
SizedUrl(item) ==
    IF item.kind = "ImageOrMotionPhotoBaseUrl"
    THEN Url(item.url, "=w-h", item.width, item.height)
    ELSE Url(item.url, "=dv", 0, 0)

\* C23: the url a request is fetched from is its base url with
\* =w<width>-h<height> for an image and with =dv for a video, under either
\* scheduler.
C23_OneLocator ==
    \A i \in Items :
       task[i].st # "queued" => task[i].url = SizedUrl(MediaAttr(i))

\* C24: photos_to_disk can spawn the write thread of the next request whenever
\* one is queued, whatever the fetches spawned before are doing, and every
\* request it has dequeued has its write thread.
C24_SpawnsWithoutWaiting ==
    ~unordered =>
       /\ (sched = "recv" /\ write_request # <<>>) => ENABLED Spawn
       /\ \A k \in 1..Len(handles) : task[handles[k]].st # "queued"
       /\ Len(handles) = enqueued - Len(write_request)

C24_Witness ==
    /\ ~unordered
    /\ closed
    /\ write_request = <<>>
    /\ env.nreq > PoolCap
    /\ \A i \in Items : task[i].st = "connect"

\* C25: in photos_to_disk_unordered, as long as the scheduler is in its receive
\* loop no fetch has begun (no task, no event, no GET) and media_items holds
\* every request dequeued; a fetch has begun only if the queue is closed and
\* empty; and when the fan-out begins media_items holds all requests of the
\* run, however many.
C25_DrainThenFanOut ==
    unordered =>
       /\ sched = "recv" =>
             /\ \A i \in Items :
                   task[i].st = "queued" /\ log[i] = <<>> /\ task[i].gets = 0
             /\ Len(media_items) = enqueued - Len(write_request)
       /\ (\E i \in Items : task[i].st # "queued") =>
             closed /\ write_request = <<>> /\ enqueued = env.nreq
       /\ (sched = "fanout" /\ \A i \in Items : task[i].st = "queued") =>
             Len(media_items) = env.nreq

C25_Witness ==
    /\ unordered
    /\ sched = "fanout"
    /\ \A i \in Items : task[i].st = "queued"
    /\ Len(media_items) = env.nreq
    /\ env.nreq > QUEUE_DEPTH

\* C26: in the fan-out of photos_to_disk_unordered, whenever a request is
\* unstarted and fewer fetches than the cap are in flight, the next fetch can
\* start, whatever the fetches in flight are doing.
C26_StartsWhenSlotFree ==
    (unordered /\ sched = "fanout" /\ media_items # <<>>
        /\ Cardinality(InFlight) < PoolCap) => ENABLED Pull

C26_Witness ==
    /\ unordered
    /\ PoolCap >= 2
    /\ env.nreq > PoolCap
    /\ task[1].st = "connect"
    /\ \A i \in Items \ {1} :
          task[i].st = "ok" /\ Len(EventsOf(i, {"Completed"})) = 1

\* the fetch of item i holds its .chunks file open: from File::create to the end
\* of the arm for 200
Open(i) == task[i].st \in {"stream", "rename", "complete"}

\* C27 as stated: no two fetches hold the same .chunks file open at the same
\* time.
C27_OnePartialWriter ==
    \A i, j \in Items :
       (i # j /\ Open(i) /\ Open(j))
          => FileName(task[i].path, TRUE) # FileName(task[j].path, TRUE)

\* C27: no two fetches of requests of different filenames hold the same
\* .chunks file open at the same time, and the .chunks file a fetch holds
\* open is the one of its own request.
C27_OnePartialWriterPerName ==
    \A i, j \in Items :
       /\ Open(i) => FileName(task[i].path, TRUE) = PartialOf(i)
       /\ (i # j /\ FileNameOf(i) # FileNameOf(j) /\ Open(i) /\ Open(j))
             => FileName(task[i].path, TRUE) # FileName(task[j].path, TRUE)

C27_Witness ==
    \E i, j \in Items :
       /\ i # j
       /\ FileNameOf(i) # FileNameOf(j)
       /\ task[i].st = "stream"
       /\ task[j].st = "stream"
       /\ {PartialOf(i), PartialOf(j)} \subseteq files

\* C28: when photos_to_disk has returned and a write thread has ended with a
\* file system error, the run has returned an error.
C28_ErrorPropagated ==
    (~unordered /\ run # "pending"
        /\ \E i \in Items : task[i].st = "err" /\ task[i].faults \cap FsFaults # {})
       => run = "Err"

\* how many Retrying events are due after n chunk timeouts
RetryingDue(n) ==
    IF n >= 2 * STALL_WARN THEN 2 ELSE IF n >= STALL_WARN THEN 1 ELSE 0

\* C29: an item has sent a Retrying for its 20th and one for its 40th chunk
\* timeout, each carrying that count and the .chunks name, and no other; an
\* item whose last event is a Retrying has not returned Ok and has issued no
\* further GET: it is still reading the body, or past its end, or a later
\* read or file system error has ended it.
C29_RetryingAt20And40 ==
    \A i \in Items :
       LET r == EventsOf(i, {"Retrying"}) IN
         /\ Len(r) = RetryingDue(task[i].timeouts)
         /\ \A k \in 1..Len(r) : r[k].a = k * STALL_WARN /\ r[k].s = "chunks"
         /\ (log[i] # <<>> /\ Last(log[i]).t = "Retrying") =>
               /\ task[i].st \in {"stream", "rename", "complete", "err"}
               /\ task[i].st = "err" =>
                     task[i].faults \cap ({"body"} \cup FsFaults) # {}
               /\ task[i].gets = task[i].retries + task[i].hops + 1

C29_Witness ==
    \E i \in Items :
       /\ task[i].timeouts = 2 * STALL_WARN
       /\ Len(EventsOf(i, {"Retrying"})) = 2
       /\ Last(log[i]).t = "Retrying"
       /\ Last(log[i]).a = 2 * STALL_WARN
       /\ task[i].st = "stream"
       /\ Len(task[i].body) = 1

\* the Failed events item i has sent from its chunk loop
Abandoned(i) == SelectSeq(log[i], LAMBDA e : e.t = "Failed" /\ e.s = "chunks")

\* C30: a Failed from the chunk loop is sent only by an item whose count of
\* chunk timeouts is 60, and once; an item that met no chunk timeout can read
\* on as long as the body has chunks, and when it has returned Ok after the end
\* of the body it has sent Completed, whatever the number of chunks.
C30_NoDeadline ==
    \A i \in Items :
       /\ Abandoned(i) # <<>> =>
             task[i].timeouts = STALL_GIVE_UP /\ Len(Abandoned(i)) = 1
       /\ "stall" \notin task[i].faults =>
             /\ (task[i].st = "stream" /\ task[i].chunks < env.chunks)
                   => ENABLED ChunkRead(i)
             /\ (task[i].st = "ok" /\ task[i].completed) =>
                   /\ Len(EventsOf(i, {"Completed"})) = 1
                   /\ Len(task[i].body) = task[i].chunks

C30_Witness ==
    \E i \in Items :
       /\ task[i].faults = {}
       /\ task[i].st = "ok"
       /\ task[i].completed
       /\ Len(task[i].body) = StreamChunks
       /\ StreamChunks >= 2
       /\ Abandoned(i) = <<>>

\* C31: during the body transfer the count of chunk timeouts never goes down and
\* grows by one at a time; a step in which a chunk is received leaves it as it
\* is; and the step that takes it from 59 to 60 ends the fetch, with Failed
\* carrying the .chunks name as the item's last event, also when chunks were
\* received between the timeouts.
C31_StallsNeverReset ==
    [][\A i \in Items :
         task[i].st = "stream" =>
            /\ task'[i].timeouts \in {task[i].timeouts, task[i].timeouts + 1}
            /\ Len(task'[i].body) > Len(task[i].body)
                  => task'[i].timeouts = task[i].timeouts
            /\ (task[i].timeouts = STALL_GIVE_UP - 1 /\ task'[i].timeouts = STALL_GIVE_UP)
                  => /\ task'[i].st \in {"ok", "err"}
                     /\ sink = "running" =>
                           /\ Last(log'[i]).t = "Failed"
                           /\ Last(log'[i]).s = "chunks"
                           /\ Len(log'[i]) = Len(log[i]) + 1]_vars

C31_Witness ==
    \E i \in Items :
       /\ task[i].timeouts = STALL_GIVE_UP
       /\ task[i].resumed
       /\ Len(task[i].body) = StreamChunks
       /\ StreamChunks >= 2
       /\ Len(Abandoned(i)) = 1
       /\ task[i].st = "ok"
       /\ content[PartialOf(i)] = task[i].body

\* C32: in every reachable state the count of chunk timeouts of an item is in
\* 0..60, hence below the 256 at which a u8 wraps; an item whose count is 60
\* has left the chunk loop; and every Retrying event carries the count 20 or 40.
C32_StallCounterRange ==
    \A i \in Items :
       /\ task[i].timeouts \in 0..STALL_GIVE_UP
       /\ task[i].timeouts + 1 < U8
       /\ task[i].timeouts = STALL_GIVE_UP => task[i].st \notin Running
       /\ \A k \in 1..Len(log[i]) :
             log[i][k].t = "Retrying" => log[i][k].a \in {STALL_WARN, 2 * STALL_WARN}

C32_Witness ==
    \E i \in Items :
       /\ task[i].timeouts = STALL_GIVE_UP
       /\ task[i].timeouts < env.stalls
       /\ task[i].chunks < env.chunks
       /\ task[i].st = "ok"
       /\ Len(EventsOf(i, {"Retrying"})) = 2
       /\ ~ENABLED ChunkTimeout(i)

\* C33: whatever the listings answer, the selector eventually drops its
\* sender and returns.
C33_SelectorCloses == <>(closed /\ selector = "done")

\* the events that end an item: Completed, Failed, FailedHttp
Terminal == {"Completed", "Failed", "FailedHttp"}

\* C34: in every reachable state an item has sent at most one of Completed,
\* Failed and FailedHttp over all the hops of its redirect chain, that event is
\* the last one it has sent, and its fetch is over, so that nothing follows it.
C34_OneTerminalEvent ==
    \A i \in Items :
       /\ Len(EventsOf(i, Terminal)) <= 1
       /\ EventsOf(i, Terminal) # <<>> =>
             /\ Last(log[i]).t \in Terminal
             /\ task[i].st \in Ended
             /\ ~ENABLED ConnectTimeout(i) /\ ~ENABLED ChunkTimeout(i)

C34_Witness ==
    \E i \in Items :
       /\ task[i].hops = FetchHops
       /\ FetchHops >= 2
       /\ task[i].retries > 0
       /\ Len(log[i]) >= 3
       /\ Last(log[i]).t = "Completed"
       /\ task[i].st = "ok"

\* the events of item i that are in the event channel, in the channel's order
InChannel(i) == SelectSeq(track_and_log, LAMBDA e : e.i = i)

\* the last n elements of a sequence
Suffix(seq, n) == SubSeq(seq, Len(seq) - n + 1, Len(seq))

\* C35: in every reachable state an item that has issued a GET or sent any
\* event has sent New as its first event, and only once; the events of an item
\* that wait in the event channel are the ones it sent last, in the order in
\* which it sent them; and the sink's counters satisfy
\* completed + failed <= total.
C35_NewComesFirst ==
    /\ \A i \in Items :
          /\ (task[i].gets > 0 \/ log[i] # <<>>) =>
                /\ log[i] # <<>>
                /\ log[i][1].t = "New"
                /\ Len(EventsOf(i, {"New"})) = 1
          /\ Len(InChannel(i)) <= Len(log[i])
          /\ InChannel(i) = Suffix(log[i], Len(InChannel(i)))
    /\ mem._completed + mem._failed <= mem._total

C35_Witness ==
    /\ sink = "running"
    /\ mem._total = NumReq
    /\ mem._completed >= 1
    /\ mem._failed >= 1
    /\ \E i \in Items : task[i].st = "ok" /\ Len(log[i]) = 2 /\ InChannel(i) = <<>>

\* the sink has received the Completed of item i
CompletedCounted(i) ==
    /\ EventsOf(i, {"Completed"}) # <<>>
    /\ \A k \in 1..Len(InChannel(i)) : InChannel(i)[k].t # "Completed"

C37_DryRunSilent ==
    is_dry_run =>
        /\ \A i \in Items : log[i] = <<>>
        /\ \A k \in 1..Len(track_and_log) : track_and_log[k].t = "Summarize"
        /\ mem = [_total |-> 0, _completed |-> 0, _failed |-> 0]

C37_Witness ==
    /\ is_dry_run
    /\ unordered
    /\ env.nreq > QUEUE_DEPTH
    /\ \A i \in Items : task[i].st = "ok"
    /\ run = "Ok"
    /\ sink = "done"
    /\ reports = 1
    /\ mem._total = 0

\* C38: photos_to_disk_unordered never resolves to anything but Ok, and it has
\* resolved to Ok when the scheduler is done and every fetch has ended,
\* whatever the fetches ended with.
C38_UnorderedAlwaysOk ==
    unordered =>
        /\ run \in {"pending", "Ok"}
        /\ (sched = "done" /\ \A i \in Items : task[i].st \in Ended) => run = "Ok"

\* C39: while an item has met fewer than 51 doublings, the next doubling of
\* its pause fits into 64 bits; no item has panicked on the multiplication;
\* and no RetryAfter of an item announces a pause smaller than the one its
\* RetryAfter before announced.
C39_BackoffNeverWraps ==
    \A i \in Items :
       LET ra == EventsOf(i, {"RetryAfter"}) IN
         /\ (task[i].st = "sleep" /\ task[i].retries < 51) => ~Overflows(task[i].pause_ms)
         /\ "overflow" \notin task[i].faults
         /\ \A k \in 2..Len(ra) : ~Less(ra[k].a, ra[k - 1].a)

\* C40: on every step taken after the sink has ended, no event is sent; a
\* write thread that starts (not in a dry run) ends with an error without
\* having issued a GET and without a file made; and a fetch whose GET times out
\* ends with an error instead of sleeping and trying again.
C40_SendFailsAfterSinkEnded ==
    [][sink # "running" =>
         /\ log' = log
         /\ track_and_log' = track_and_log
         /\ \A i \in Items :
               /\ (~is_dry_run /\ Start(i)) =>
                     /\ task'[i].st = "err"
                     /\ task'[i].gets = 0
                     /\ files' = files
               /\ task[i].st = "connect" => task'[i].st # "sleep"
               /\ ConnectTimeout(i) =>
                     /\ task'[i].st = "err"
                     /\ task'[i].retries = task[i].retries]_vars

\* a fetch that had announced a retry before the sink ended and whose next
\* GET timed out afterwards, and a write thread that started afterwards
C40_Witness ==
    /\ sink = "done"
    /\ \E i \in Items :
          /\ task[i].st = "err"
          /\ task[i].faults = {"timeout"}
          /\ task[i].retries >= 1
          /\ task[i].gets = task[i].retries + 1
          /\ Len(EventsOf(i, {"RetryAfter"})) = task[i].retries

====
